---- MODULE Spec2Model ----
(***************************************************************************)
(* Model of Xplore/core.py: the paginated retrieval loop get_mentions, its *)
(* caller gatherdata.keywordsearch, and the batched profile fetcher        *)
(* get_users.  requests.get is synchronous, so one request/response        *)
(* exchange is one step; the server's answer is a nondeterministic input.  *)
(***************************************************************************)
EXTENDS Integers, Sequences, FiniteSets, TLC

\* ------------------------------------------------------------------ bounds
MaxPages == 2
MaxIds == 201

\* ------------------------------------------------------- program constants
HTTP_OK == 200
HTTP_TOO_MANY_REQUESTS == 429
batch_size == 100

\* ------------------------------------------------------------ input domains
None == "none"
\* the (keyword, max_results) argument pairs tried
Calls == {[keyword |-> "k1", max_results |-> 10],
          [keyword |-> "k2", max_results |-> 100]}
Statuses == {HTTP_OK, HTTP_TOO_MANY_REQUESTS, 500}
Tokens == {"t1", "t2"}
U(id, n) == [id |-> id, username |-> n]
\* the 'data' and 'includes.users' lists a JSON body may carry (an absent key
\* reads as the empty list): no author, one, two, and the same author twice
Payloads ==
    {[data |-> << >>,     users |-> << >>],
     [data |-> <<1>>,     users |-> <<U("u1", "a")>>],
     [data |-> <<2, 1>>,  users |-> <<U("u1", "b"), U("u2", "a")>>],
     [data |-> <<3>>,     users |-> <<U("u2", "b"), U("u2", "c")>>]}
\* a response: status code and body; json = FALSE is a body response.json()
\* cannot turn into a JSON object, and then nothing else of it is readable.
\* A 200 carries any payload and cursor; an error status carries no JSON, a
\* JSON error document (no data, no meta), or a JSON document with a payload
\* and a cursor.
Body(s, j, p, t) ==
    [status |-> s, json |-> j, data |-> p.data, users |-> p.users, next_token |-> t]
NoPayload == [data |-> << >>, users |-> << >>]
ErrPayload == [data |-> <<2, 1>>, users |-> <<U("u1", "b"), U("u2", "a")>>]
Responses ==
    {Body(HTTP_OK, TRUE, p, t) : p \in Payloads, t \in {None} \cup Tokens}
    \cup {Body(s, FALSE, NoPayload, None) : s \in Statuses}
    \cup {Body(s, TRUE, NoPayload, None) : s \in Statuses \ {HTTP_OK}}
    \cup {Body(s, TRUE, ErrPayload, "t2") : s \in Statuses \ {HTTP_OK}}
NoResponse == [status |-> 0, json |-> FALSE, data |-> << >>, users |-> << >>,
               next_token |-> None]
\* the exception classes the code can raise, and which derive from Exception
ExcClasses == {"Exception", "JSONDecodeError", "OSError"}

VARIABLES
    keyword, max_results, max_pages,  \* arguments of keywordsearch/get_mentions
    params,                           \* the params dict of get_mentions
    page,                             \* loop iterations of range(max_pages) begun
    response,                         \* the local variable response
    all_tweets, all_users,            \* the accumulators
    pc,                               \* position inside get_mentions
    exc,                              \* the exception raised, or None
    ks_pc, csv, printed,              \* keywordsearch: position, keyword2csv calls, message
    trace,                            \* history of requests and sleeps
    accumulated,                      \* history: the responses that were accumulated
    prev_tweets, prev_users,          \* history: accumulators when the page began
    limited                           \* history: the 429 response of this page, if any

mvars == <<keyword, max_results, max_pages, params, page, response, all_tweets,
           all_users, pc, exc, ks_pc, csv, printed, trace, accumulated,
           prev_tweets, prev_users, limited>>

VARIABLES
    user_ids, i, all_users_data,      \* get_users: argument, loop index, accumulator
    u_pc, u_response, u_trace         \* position, local response, history of requests

uvars == <<user_ids, i, all_users_data, u_pc, u_response, u_trace>>

vars == <<mvars, uvars>>

\* =================================================================
\* get_mentions
\* =================================================================

\* line 191-197: the params dict, without a next_token key
InitialParams(q, m) == [query |-> q, max_results |-> m, next_token |-> None]

\* mutant: the cursor of the response is dropped
SetCursorDropped(p, tok) == p

\* line 216-217: params['next_token'] = json_response['meta']['next_token']
SetCursor(p, tok) == [p EXCEPT !.next_token = tok]

\* mutants: the page is appended twice; the page is put in front
ExtendTwice(all, tweets) == all \o tweets \o tweets
ExtendInFront(all, tweets) == tweets \o all

\* line 212: all_tweets.extend(tweets)
Extend(all, tweets) == all \o tweets

\* line 213: {u['id']: u for u in users}  -- a later entry replaces an earlier one
UsersDict(users) ==
    [k \in {users[j].id : j \in DOMAIN users} |->
        LET last == CHOOSE j \in DOMAIN users :
                        /\ users[j].id = k
                        /\ \A j2 \in DOMAIN users : users[j2].id = k => j2 <= j
        IN  users[last]]

\* mutant: an author already in the index keeps the earlier record
UpdateKeepFirst(all, users) ==
    [k \in DOMAIN all \cup DOMAIN users |->
        IF k \in DOMAIN all THEN all[k] ELSE users[k]]

\* line 214: all_users.update(users)
Update(all, users) ==
    [k \in DOMAIN all \cup DOMAIN users |->
        IF k \in DOMAIN users THEN users[k] ELSE all[k]]

\* mutant: every failure status is slept on and retried
AfterFirstAttemptRetryAll(status) ==
    IF status # HTTP_OK THEN "RateLimitedWait" ELSE "Accumulating"

\* line 203, 207: what the status of the first attempt of a page leads to
AfterFirstAttempt(status) ==
    IF status = HTTP_TOO_MANY_REQUESTS THEN "RateLimitedWait"
    ELSE IF status # HTTP_OK THEN "Failed"
    ELSE "Accumulating"

\* line 206-210: the retry's response goes to response.json() unexamined
AfterRetry(status) == "Accumulating"

\* mutant: one iteration too many
InRangeInclusive(pg, max) == pg <= max

\* line 201: for _ in range(max_pages) has another iteration after pg of them
InRange(pg, max) == pg < max

\* line 216: 'next_token' in json_response.get('meta', {})
HasCursor(r) == r.next_token # None

\* history records.  An exchange records what was sent and the status that
\* came back, and the body of a 200 (the page the server served).
Exchange(pg, attempt, r) ==
    [kind |-> "request", page |-> pg, attempt |-> attempt, sent |-> params,
     status |-> r.status,
     json |-> (r.status = HTTP_OK /\ r.json),
     data |-> IF r.status = HTTP_OK THEN r.data ELSE << >>,
     next_token |-> IF r.status = HTTP_OK THEN r.next_token ELSE None]
SleepEvent ==
    [kind |-> "sleep", page |-> page, attempt |-> 0, sent |-> params,
     status |-> 0, json |-> FALSE, data |-> << >>, next_token |-> None]
\* which exchange was accumulated, and the authors and cursor read from it
Accumulated(r) ==
    [ix |-> Len(trace), users |-> r.users, next_token |-> r.next_token]

\* line 263-264, 189-200: keywordsearch calls get_mentions, which sets up
Start ==
    /\ ks_pc = "Idle" /\ pc = "Idle"
    /\ ks_pc' = "Called"
    /\ params' = InitialParams(keyword, max_results)
    /\ all_tweets' = << >>
    /\ all_users' = << >>
    /\ pc' = "Requesting"
    /\ UNCHANGED <<keyword, max_results, max_pages, page, response, exc, csv,
                   printed, trace,
                   accumulated, prev_tweets, prev_users, limited>>

\* line 201-208: next iteration of the loop, first attempt of the page
FirstAttempt ==
    /\ pc = "Requesting" /\ InRange(page, max_pages)
    /\ page' = page + 1
    /\ \E r \in Responses :
        /\ response' = r
        /\ trace' = Append(trace, Exchange(page + 1, 1, r))
        /\ pc' = AfterFirstAttempt(r.status)
        /\ exc' = IF AfterFirstAttempt(r.status) = "Failed" THEN "Exception" ELSE exc
        /\ limited' = IF r.status = HTTP_TOO_MANY_REQUESTS THEN r ELSE NoResponse
    /\ prev_tweets' = all_tweets
    /\ prev_users' = all_users
    /\ UNCHANGED <<keyword, max_results, max_pages, params, all_tweets, all_users,
                   ks_pc, csv, printed, accumulated>>

\* line 204-205: print, time.sleep(901)
Sleep ==
    /\ pc = "RateLimitedWait"
    /\ trace' = Append(trace, SleepEvent)
    /\ pc' = "Retrying"
    /\ UNCHANGED <<keyword, max_results, max_pages, params, page, response,
                   all_tweets, all_users, exc, ks_pc, csv, printed, accumulated,
                   prev_tweets, prev_users, limited>>

\* line 206: the same request once more
Retry ==
    /\ pc = "Retrying"
    /\ \E r \in Responses :
        /\ response' = r
        /\ trace' = Append(trace, Exchange(page, 2, r))
        /\ pc' = AfterRetry(r.status)
        /\ exc' = IF AfterRetry(r.status) = "Failed" THEN "Exception" ELSE exc
    /\ UNCHANGED <<keyword, max_results, max_pages, params, page, all_tweets,
                   all_users, ks_pc, csv, printed, accumulated, prev_tweets,
                   prev_users, limited>>

\* line 210: response.json() raises on a body that is no JSON object
JsonFails ==
    /\ pc = "Accumulating" /\ ~response.json
    /\ pc' = "Failed"
    /\ exc' = "JSONDecodeError"
    /\ UNCHANGED <<keyword, max_results, max_pages, params, page, response,
                   all_tweets, all_users, ks_pc, csv, printed, trace,
                   accumulated, prev_tweets, prev_users, limited>>

\* line 210-219: accumulate the page, then follow the cursor or break
Accumulate ==
    /\ pc = "Accumulating" /\ response.json
    /\ all_tweets' = Extend(all_tweets, response.data)
    /\ all_users' = Update(all_users, UsersDict(response.users))
    /\ accumulated' = Append(accumulated, Accumulated(response))
    /\ IF HasCursor(response)
       THEN /\ params' = SetCursor(params, response.next_token)
            /\ pc' = "Requesting"
       ELSE /\ params' = params
            /\ pc' = "Done"
    /\ UNCHANGED <<keyword, max_results, max_pages, page, response, exc, ks_pc,
                   csv, printed, trace, prev_tweets, prev_users, limited>>

\* line 201, 221: range(max_pages) is exhausted, return
LoopExit ==
    /\ pc = "Requesting" /\ ~InRange(page, max_pages)
    /\ pc' = "Done"
    /\ UNCHANGED <<keyword, max_results, max_pages, params, page, response,
                   all_tweets, all_users, exc, ks_pc, csv, printed, trace,
                   accumulated, prev_tweets, prev_users, limited>>

\* =================================================================
\* gatherdata.keywordsearch
\* =================================================================

\* mutant: the handler names one exception class
CatchesJsonOnly(e) == e = "JSONDecodeError"

\* line 267: except Exception
Catches(e) == e \in ExcClasses

\* line 264-266: get_mentions returned; keyword2csv writes the file or raises
Export ==
    /\ ks_pc = "Called" /\ pc = "Done"
    /\ csv' = Append(csv, [tweets |-> all_tweets, users |-> all_users,
                          keyword |-> keyword])
    /\ \E ok \in BOOLEAN :
        IF ok THEN /\ printed' = "success"
                   /\ exc' = exc
                   /\ ks_pc' = "Returned"
        ELSE /\ exc' = "OSError"
             /\ printed' = IF Catches("OSError") THEN "error" ELSE printed
             /\ ks_pc' = IF Catches("OSError") THEN "Returned" ELSE "Escaped"
    /\ UNCHANGED <<keyword, max_results, max_pages, params, page, response,
                   all_tweets, all_users, pc, trace, accumulated,
                   prev_tweets, prev_users, limited>>

\* line 267-268: get_mentions raised; the handler prints the failure
Handle ==
    /\ ks_pc = "Called" /\ pc = "Failed"
    /\ printed' = IF Catches(exc) THEN "error" ELSE printed
    /\ ks_pc' = IF Catches(exc) THEN "Returned" ELSE "Escaped"
    /\ UNCHANGED <<keyword, max_results, max_pages, params, page, response,
                   all_tweets, all_users, pc, exc, csv, trace, accumulated,
                   prev_tweets, prev_users, limited>>

MInit ==
    /\ \E c \in Calls : keyword = c.keyword /\ max_results = c.max_results
    /\ max_pages \in 0..MaxPages
    /\ params = InitialParams(None, 0)
    /\ page = 0
    /\ response = NoResponse
    /\ all_tweets = << >>
    /\ all_users = << >>
    /\ pc = "Idle"
    /\ exc = None
    /\ ks_pc = "Idle"
    /\ csv = << >>
    /\ printed = None
    /\ trace = << >>
    /\ accumulated = << >>
    /\ prev_tweets = << >>
    /\ prev_users = << >>
    /\ limited = NoResponse

\* =================================================================
\* get_users
\* =================================================================

\* 'data' lists a users response may carry
BatchData == {<< >>, <<"p">>, <<"q", "p">>}
UResponses == [status : Statuses, has_data : BOOLEAN, data : BatchData]
UNoResponse == [status |-> 0, has_data |-> FALSE, data |-> << >>]

\* line 129: user_ids[i:i+batch_size]
Slice(s, from, size) ==
    SubSeq(s, from + 1, IF from + size < Len(s) THEN from + size ELSE Len(s))

\* mutant: a 429 makes the loop ask for the batch again
UAfterRequestRetry(status) ==
    IF status = HTTP_TOO_MANY_REQUESTS THEN "Batching"
    ELSE IF status # HTTP_OK THEN "Failed" ELSE "Extending"

\* line 136: if response.status_code != 200: raise
UAfterRequest(status) == IF status # HTTP_OK THEN "Failed" ELSE "Extending"

\* line 128: the step of range(0, len(user_ids), batch_size)
NextIndex(k) == k + batch_size

\* line 128-137: next batch
BatchRequest ==
    /\ u_pc = "Batching" /\ i < Len(user_ids)
    /\ \E r \in UResponses :
        /\ u_response' = r
        /\ u_trace' = Append(u_trace,
                             [kind |-> "request", ids |-> Slice(user_ids, i, batch_size),
                              status |-> r.status, has_data |-> r.has_data,
                              data |-> r.data])
        /\ u_pc' = UAfterRequest(r.status)
    /\ UNCHANGED <<user_ids, i, all_users_data>>

\* line 139: all_users_data.extend(response.json()['data'])
UExtend ==
    /\ u_pc = "Extending"
    /\ IF u_response.has_data
       THEN /\ all_users_data' = Extend(all_users_data, u_response.data)
            /\ i' = NextIndex(i)
            /\ u_pc' = "Batching"
       ELSE /\ u_pc' = "Failed"
            /\ UNCHANGED <<all_users_data, i>>
    /\ UNCHANGED <<user_ids, u_response, u_trace>>

\* line 141: return all_users_data
UReturn ==
    /\ u_pc = "Batching" /\ i >= Len(user_ids)
    /\ u_pc' = "Done"
    /\ UNCHANGED <<user_ids, i, all_users_data, u_response, u_trace>>

\* the id list: n distinct ids, in ascending or in descending order
IdList(n, asc) == [k \in 1..n |-> IF asc THEN k ELSE n + 1 - k]

UInit ==
    /\ \E n \in 0..MaxIds, asc \in BOOLEAN : user_ids = IdList(n, asc)
    /\ i = 0
    /\ all_users_data = << >>
    /\ u_pc = "Batching"
    /\ u_response = UNoResponse
    /\ u_trace = << >>

UIdle ==
    /\ user_ids = << >> /\ i = 0 /\ all_users_data = << >> /\ u_pc = "Unused"
    /\ u_response = UNoResponse /\ u_trace = << >>

MIdle ==
    /\ keyword = None /\ max_results = 0 /\ max_pages = 0
    /\ params = InitialParams(None, 0) /\ page = 0 /\ response = NoResponse
    /\ all_tweets = << >> /\ all_users = << >> /\ pc = "Unused" /\ exc = None
    /\ ks_pc = "Unused" /\ csv = << >> /\ printed = None /\ trace = << >>
    /\ accumulated = << >> /\ prev_tweets = << >>
    /\ prev_users = << >>
    /\ limited = NoResponse

\* =================================================================
\* specifications
\* =================================================================
Init == MInit /\ UIdle

Next ==
    \/ (Start /\ UNCHANGED uvars)
    \/ (FirstAttempt /\ UNCHANGED uvars)
    \/ (Sleep /\ UNCHANGED uvars)
    \/ (Retry /\ UNCHANGED uvars)
    \/ (JsonFails /\ UNCHANGED uvars)
    \/ (Accumulate /\ UNCHANGED uvars)
    \/ (LoopExit /\ UNCHANGED uvars)
    \/ (Export /\ UNCHANGED uvars)
    \/ (Handle /\ UNCHANGED uvars)

Spec == Init /\ [][Next]_vars

\* every step is a step of one sequential call: it is taken when it can be
FairSpec == Spec /\ WF_vars(Next)

InitUsers == UInit /\ MIdle

NextUsers ==
    \/ (BatchRequest /\ UNCHANGED mvars)
    \/ (UExtend /\ UNCHANGED mvars)
    \/ (UReturn /\ UNCHANGED mvars)

SpecUsers == InitUsers /\ [][NextUsers]_vars

\* =================================================================
\* properties
\* =================================================================
RECURSIVE ConcatData(_, _)
\* the 'data' lists of the first k exchanges of t, one after the other
ConcatData(t, k) == IF k = 0 THEN << >> ELSE ConcatData(t, k - 1) \o t[k].data

Min(a, b) == IF a < b THEN a ELSE b
IsRequest(k) == trace[k].kind = "request"
Requests == {k \in DOMAIN trace : IsRequest(k)}
WasAccumulated(k) == \E a \in DOMAIN accumulated : accumulated[a].ix = k
Terminated == pc \in {"Done", "Failed"}
\* the k-th exchange was a first attempt answered by a well-formed 200
Served(k) ==
    /\ IsRequest(k) /\ trace[k].attempt = 1
    /\ trace[k].status = 200 /\ trace[k].json
\* the last occurrence of author id in the list users
LastOf(users, id) ==
    users[CHOOSE j \in DOMAIN users :
            /\ users[j].id = id
            /\ \A j2 \in DOMAIN users : users[j2].id = id => j2 <= j]
IdsOf(users) == {users[j].id : j \in DOMAIN users}

\* C1: when the retry of a page is answered 429 as its first attempt was,
\* get_mentions raises: that response is the last exchange of the retrieval,
\* it is not accumulated and no result is returned.
C1_SecondRateLimitRaises ==
    \A k \in Requests :
        (trace[k].attempt = 2 /\ trace[k].status = 429) =>
            /\ k = Len(trace)
            /\ ~WasAccumulated(k)
            /\ pc \in {"Accumulating", "Failed"}

\* C2: a response whose status is neither 200 nor 429, first attempt or
\* retry, makes get_mentions raise at once: it is the last exchange, nothing
\* of it is accumulated and no result is returned.
C2_OtherStatusRaises ==
    \A k \in Requests :
        trace[k].status \notin {200, 429} =>
            /\ k = Len(trace)
            /\ ~WasAccumulated(k)
            /\ pc \in {"Accumulating", "Failed"}

\* the page just handled was answered 429 and then, on retry, a well-formed 200
RetriedPageDone ==
    /\ Len(trace) >= 3
    /\ IsRequest(Len(trace)) /\ trace[Len(trace)].attempt = 2
    /\ trace[Len(trace)].status = 200 /\ trace[Len(trace)].json
    /\ limited.status = 429
    /\ pc # "Accumulating"
\* C3: a page answered 429 and then, on its one retry, by a well-formed 200
\* is accumulated from the 200 alone: the items are those the accumulator
\* held when the page began followed by the 200's data once, the authors are
\* the earlier index overwritten by the 200's users, and the retrieval goes on
\* (next page or normal return) without a failure.
C3_RetryAccumulatesOnce ==
    RetriedPageDone =>
        /\ pc \in {"Requesting", "Done"}
        /\ WasAccumulated(Len(trace))
        /\ all_tweets = prev_tweets \o trace[Len(trace)].data
        /\ DOMAIN all_users = DOMAIN prev_users \cup IdsOf(response.users)
        /\ \A id \in DOMAIN all_users :
              all_users[id] = IF id \in IdsOf(response.users)
                              THEN LastOf(response.users, id)
                              ELSE prev_users[id]
C3_Witness ==
    /\ RetriedPageDone
    /\ limited.json /\ limited.data # << >> /\ limited.users # << >>
    /\ trace[Len(trace)].data = <<1>>
    /\ prev_tweets # << >>

\* every exchange so far served a page; only the last page has no cursor
ServedToTheEnd ==
    /\ Len(trace) >= 1
    /\ \A k \in DOMAIN trace :
          Served(k) /\ (trace[k].next_token = None <=> k = Len(trace))
\* C4: when the server serves P pages with 200, the first P-1 with a cursor
\* and the P-th without, get_mentions returns normally after exactly those P
\* requests, and the list returned is the pages' data in arrival order, whose
\* length is the sum of the page sizes.
C4_AllPagesInOrder ==
    ServedToTheEnd =>
        /\ Len(trace) <= max_pages
        /\ pc \in {"Accumulating", "Done"}
        /\ pc = "Done" =>
              /\ all_tweets = ConcatData(trace, Len(trace))
              /\ \A k \in DOMAIN trace :
                    SubSeq(all_tweets, Len(ConcatData(trace, k - 1)) + 1,
                           Len(ConcatData(trace, k))) = trace[k].data
C4_Witness ==
    /\ ServedToTheEnd /\ pc = "Done" /\ Len(trace) = 2
    /\ trace[1].data = <<2, 1>> /\ trace[2].data = <<3>>
    /\ all_tweets = <<2, 1, 3>>

\* every exchange so far served a page of N items with a cursor
AlwaysMore(N) ==
    \A k \in DOMAIN trace :
        Served(k) /\ trace[k].next_token # None /\ Len(trace[k].data) = N
\* C5: when every response is a 200 with N items and a cursor, get_mentions
\* issues no more than max_pages requests, does not fail, and returns after
\* exactly max_pages requests with max_pages * N items.
C5_CeilingStops ==
    \A N \in 0..2 :
        AlwaysMore(N) =>
            /\ Len(trace) <= max_pages
            /\ pc # "Failed"
            /\ pc = "Done" =>
                  /\ Len(trace) = max_pages
                  /\ Len(all_tweets) = max_pages * N
                  /\ all_tweets = ConcatData(trace, Len(trace))
C5_Witness ==
    /\ AlwaysMore(2) /\ pc = "Done" /\ max_pages = MaxPages
    /\ Len(trace) = MaxPages /\ Len(all_tweets) = 2 * MaxPages

\* the last accumulated page whose users hold the author id
LastPageWith(id) ==
    CHOOSE a \in DOMAIN accumulated :
        /\ id \in IdsOf(accumulated[a].users)
        /\ \A b \in DOMAIN accumulated :
              id \in IdsOf(accumulated[b].users) => b <= a
\* C6: the author index has exactly the ids of the users of the accumulated
\* pages, each with the record of the last accumulated page that held it, and
\* no id the index held when the page began is missing afterwards.
C6_AuthorIndexLastWins ==
    /\ DOMAIN all_users =
          UNION {IdsOf(accumulated[a].users) : a \in DOMAIN accumulated}
    /\ \A id \in DOMAIN all_users :
          all_users[id] = LastOf(accumulated[LastPageWith(id)].users, id)
    /\ DOMAIN prev_users \subseteq DOMAIN all_users
C6_Witness ==
    /\ pc = "Done" /\ Len(accumulated) = 2
    /\ accumulated[1].users = <<U("u1", "a")>>
    /\ accumulated[2].users = <<U("u1", "b"), U("u2", "a")>>
    /\ all_users["u1"].username = "b" /\ all_users["u2"].username = "a"

\* C7: keyword2csv is called only after get_mentions returned, with what it
\* returned; when get_mentions raised, keyword2csv is not called, the failure
\* is printed and keywordsearch returns without an exception escaping.
C7_ExportOnlyOnSuccess ==
    /\ csv # << >> =>
          /\ pc = "Done"
          /\ csv = <<[tweets |-> all_tweets, users |-> all_users,
                      keyword |-> keyword]>>
    /\ printed = "success" => pc = "Done"
    /\ pc = "Failed" =>
          /\ csv = << >>
          /\ ks_pc \in {"Called", "Returned"}
          /\ printed = (IF ks_pc = "Returned" THEN "error" ELSE None)
C7_Witness ==
    /\ pc = "Failed" /\ exc = "Exception" /\ page = 2 /\ all_tweets # << >>
    /\ ks_pc = "Returned" /\ printed = "error" /\ csv = << >>

\* C8: get_users requests the ids in batches of at most 100 consecutive ids,
\* in input order and each batch once; a request follows only batches answered
\* 200; a non-200 answer (429 too) makes it raise at once; when all answers
\* are 200 with data it returns after ceil(n/100) requests (none for n = 0)
\* with the batches' data concatenated in batch order.
C8_SequentialBatches ==
    LET n == Len(user_ids)
        K == Len(u_trace)
        batches == (n + 99) \div 100
    IN  /\ K <= batches
        /\ \A k \in 1..K :
              /\ u_trace[k].kind = "request"
              /\ u_trace[k].ids = SubSeq(user_ids, 100 * (k - 1) + 1, Min(100 * k, n))
              /\ Len(u_trace[k].ids) \in 1..100
              /\ k < K => (u_trace[k].status = 200 /\ u_trace[k].has_data)
        /\ (K >= 1 /\ u_trace[K].status # 200) =>
              (u_pc = "Failed" /\ i = 100 * (K - 1))
        /\ (\A k \in 1..K : u_trace[k].status = 200 /\ u_trace[k].has_data) =>
              /\ u_pc # "Failed"
              /\ u_pc = "Done" =>
                    /\ K = batches
                    /\ all_users_data = ConcatData(u_trace, K)
        /\ trace = << >>
C8_Witness ==
    /\ u_pc = "Done" /\ Len(user_ids) = 201 /\ Len(u_trace) = 3
    /\ user_ids[1] = 201
    /\ all_users_data = <<"q", "p", "p">>

\* the shape of every history of a retrieval: pages, attempts and sleeps
C9_Bounded ==
    /\ page <= max_pages
    /\ Cardinality(Requests) <= 2 * max_pages
    /\ \A k \in DOMAIN trace :
          /\ trace[k].page \in 1..max_pages
          /\ \A k2 \in DOMAIN trace :
                (trace[k2].page = trace[k].page /\ trace[k2].kind = trace[k].kind
                 /\ trace[k2].attempt = trace[k].attempt) => k2 = k
          /\ trace[k].kind = "sleep" =>
                /\ k >= 2 /\ IsRequest(k - 1)
                /\ trace[k - 1].attempt = 1 /\ trace[k - 1].status = 429
                /\ trace[k - 1].page = trace[k].page
          /\ (IsRequest(k) /\ trace[k].attempt = 2) =>
                /\ k >= 3 /\ trace[k - 1].kind = "sleep"
                /\ trace[k - 1].page = trace[k].page
          /\ (IsRequest(k) /\ trace[k].attempt = 1
              /\ trace[k].status \notin {200, 429}) =>
                (k = Len(trace) /\ pc = "Failed")
\* C9: whatever the server answers, get_mentions begins at most max_pages
\* iterations and issues at most two requests in each; a retry comes only
\* after the cooldown sleep, and the sleep only after a 429 first attempt of
\* the same page; a first attempt answered by another failure status ends the
\* retrieval; and the call ends, returning or raising.
C9_Terminates == []C9_Bounded /\ <>Terminated
C9_Witness ==
    /\ Terminated /\ max_pages = MaxPages
    /\ Cardinality(Requests) = 2 * MaxPages
    /\ \A k \in Requests : trace[k].attempt = 1 => trace[k].status = 429

\* C10: the first request carries no cursor; the first attempt of a later
\* page carries the cursor read from the response accumulated just before it;
\* a retry carries what the rate-limited request carried; query and page size
\* are those of the call throughout.
C10_CursorFollowsServer ==
    /\ pc \notin {"Idle"} =>
          (params.query = keyword /\ params.max_results = max_results)
    /\ \A k \in Requests :
          /\ trace[k].sent.query = keyword
          /\ trace[k].sent.max_results = max_results
          /\ k = 1 => trace[k].sent.next_token = None
          /\ (k > 1 /\ trace[k].attempt = 1) =>
                \E a \in DOMAIN accumulated :
                    /\ accumulated[a].ix = k - 1
                    /\ accumulated[a].next_token # None
                    /\ trace[k].sent.next_token = accumulated[a].next_token
          /\ trace[k].attempt = 2 =>
                /\ trace[k - 2].status = 429
                /\ trace[k].sent = trace[k - 2].sent
C10_Witness ==
    /\ Len(trace) = 4 /\ trace[1].next_token = "t1"
    /\ trace[4].attempt = 2 /\ trace[4].sent.next_token = "t1"
    /\ trace[4].status = 200 /\ trace[4].next_token = "t2"
    /\ pc = "Requesting"

====
